---- MODULE Spec2Model ----
(***************************************************************************)
(* PyMDB-Client: the credential resolver (pymdbclient/config.py) and the   *)
(* API client with its pagination merge and command line                   *)
(* (pymdbclient/papi.py).                                                  *)
(*                                                                         *)
(* Two specifications share the module:                                    *)
(*   CfgSpec  ConfigReader.load_from_env applied to one configuration      *)
(*            value under one environment snapshot;                        *)
(*   Spec     one invocation of the API client, either by a library caller *)
(*            or by the command line (main), against a server that chooses *)
(*            every response.                                              *)
(*                                                                         *)
(* Python values of several types are modelled as records of one shape     *)
(* each (an option, a params value, a JSON envelope), the unused fields    *)
(* holding a fixed default.                                                *)
(***************************************************************************)
EXTENDS Integers, Sequences, FiniteSets, TLC

VARIABLES
    \* ---- config.py ----
    value,              \* the raw configuration value handed to load_from_env
    environ,            \* os.environ: name -> option of string
    resolved,           \* what load_from_env returned
    cfg_exc,            \* the exception load_from_env raised, or "none"
    cfg_pc,             \* "call" | "returned" | "raised"
    \* ---- papi.py ----
    entry,              \* "none" | "lib" (a library caller) | "cli" (main)
    verb,               \* the operation selected
    args_params,        \* the params the caller passed
    args_data,          \* the data the caller passed
    params,             \* paginate's local params
    combined_results,   \* paginate's local combined_results
    requests,           \* the network calls made so far (requests.request)
    fetched,            \* the responses received so far, in order
    result,             \* the response the operation returned
    exc,                \* the exception propagating, or "none"
    stdout,             \* the lines printed
    exit_code,          \* the process's exit status (-1: still running)
    pc                  \* "idle" | "call" | "loop" | "returned" | "raised" | "exit"

cfg_vars == <<value, environ, resolved, cfg_exc, cfg_pc>>
papi_vars == <<entry, verb, args_params, args_data, params, combined_results,
               requests, fetched, result, exc, stdout, exit_code, pc>>
vars == <<cfg_vars, papi_vars>>

(***************************************************************************)
(* Bounds.                                                                 *)
(***************************************************************************)
MaxLen == 5         \* longest configuration value, in characters
MaxPages == 3       \* most network calls of one pagination

(***************************************************************************)
(* Strings of config.py are sequences of characters, so that startswith,   *)
(* endswith and the regular expression act on them as Python does.         *)
(***************************************************************************)
Char == {"$", "{", "}", "A", "\n"}

StringsUpTo(n) == UNION {[1..k -> Char] : k \in 0..n}

None == [some |-> FALSE, str |-> <<>>]
Some(s) == [some |-> TRUE, str |-> s]

\* Python's truth value of an optional string: None and "" are false.
Truthy(v) == v.some /\ v.str # <<>>

startswith(s, p) == Len(s) >= Len(p) /\ SubSeq(s, 1, Len(p)) = p
endswith(s, p) == Len(s) >= Len(p) /\ SubSeq(s, Len(s) - Len(p) + 1, Len(s)) = p

\* re.match(r'\${(.*)}', s).group(1), or None when there is no match. The
\* pattern is anchored at the start only; '.' matches any character but a
\* newline; '.*' is greedy, so the group ends before the last '}' the run of
\* non-newline characters after '${' contains.
re_match_group(s) ==
    IF ~startswith(s, <<"$", "{">>) THEN None
    ELSE LET stops == {i \in 3..Len(s) : s[i] = "\n"}
             lineEnd == IF stops = {} THEN Len(s)
                        ELSE (CHOOSE i \in stops : \A j \in stops : i <= j) - 1
             closes == {i \in 3..lineEnd : s[i] = "}"}
         IN  IF closes = {} THEN None
             ELSE LET last == CHOOSE i \in closes : \A j \in closes : j <= i
                  IN  Some(SubSeq(s, 3, last - 1))

\* os.getenv(name, default)
EnvNames == {<<"A">>, <<"A", "A">>}
EnvValues == {<<>>, <<"A">>}
Environs == [EnvNames -> {None} \cup {Some(v) : v \in EnvValues}]

getenv(env, name, default) ==
    IF name \in DOMAIN env /\ env[name].some THEN env[name] ELSE default

\* A mutant of load_from_env that tests the prefix only.
load_from_env_prefix_only(v, env) ==
    IF Truthy(v) /\ startswith(v.str, <<"$", "{">>)
    THEN LET m == re_match_group(v.str)
         IN  IF ~m.some THEN [raised |-> "AttributeError", ret |-> None]
             ELSE [raised |-> "none", ret |-> getenv(env, m.str, v)]
    ELSE IF Truthy(v) THEN [raised |-> "none", ret |-> v]
    ELSE [raised |-> "none", ret |-> None]

\* ConfigReader.load_from_env: the exception raised and the value returned.
load_from_env(v, env) ==
    IF Truthy(v) /\ startswith(v.str, <<"$", "{">>) /\ endswith(v.str, <<"}">>)
    THEN LET m == re_match_group(v.str)
         IN  IF ~m.some THEN [raised |-> "AttributeError", ret |-> None]
             ELSE [raised |-> "none", ret |-> getenv(env, m.str, v)]
    ELSE IF Truthy(v) THEN [raised |-> "none", ret |-> v]
    ELSE [raised |-> "none", ret |-> None]

(***************************************************************************)
(* config.py as a state machine: one value, one environment snapshot, one  *)
(* call of load_from_env. The getters get_base_url, get_user_token and     *)
(* get_app_token hand config.get(..., fallback=None) to load_from_env, so  *)
(* the value ranges over None and every string configparser can return     *)
(* (multi-line values included).                                           *)
(***************************************************************************)
ConfigValues == {None} \cup {Some(s) : s \in StringsUpTo(MaxLen)}

\* ---- papi.py values ----

\* A params value: None, a str, or a dict over the keys "page" and "status".
ParamsNone == [kind |-> "None", keys |-> {}, page |-> 0, status |-> "", text |-> ""]
ParamsStr(t) == [kind |-> "str", keys |-> {}, page |-> 0, status |-> "", text |-> t]
ParamsDict(K, p, s) ==
    [kind |-> "dict", keys |-> K,
     page |-> IF "page" \in K THEN p ELSE 0,
     status |-> IF "status" \in K THEN s ELSE "", text |-> ""]

\* A data value: None, a str (its characters), or the dict {key: val}.
DataNone == [kind |-> "None", key |-> "", val |-> "", text |-> <<>>]
DataStr(t) == [kind |-> "str", key |-> "", val |-> "", text |-> t]
DataDict(k, v) == [kind |-> "dict", key |-> k, val |-> v, text |-> <<>>]

\* Python's None where a JSON string is expected (JSON null, or a missing key
\* read with .get).
Null == "<None>"

\* A JSON object of a response: its key set, the list under its data key and
\* its meta object (key set, page, next_page_url).
NoMeta == [keys |-> {}, page |-> 0, next_page_url |-> Null]
Meta(K, p, u) ==
    [keys |-> K,
     page |-> IF "page" \in K THEN p ELSE 0,
     next_page_url |-> IF "next_page_url" \in K THEN u ELSE Null]
Envelope(K, its, m) ==
    [keys |-> K,
     items |-> IF "items" \in K THEN its ELSE <<>>,
     meta |-> IF "meta" \in K THEN m ELSE NoMeta]
EmptyObject == Envelope({}, <<>>, NoMeta)

\* A response body: the server's JSON text (held as the object it parses to),
\* a server body that is not JSON, or bytes the client wrote itself.
JsonBody(j) == [kind |-> "json", json |-> j, text |-> <<>>]
NonJsonBody == [kind |-> "nonjson", json |-> EmptyObject, text |-> <<>>]
Bytes(t) == [kind |-> "bytes", json |-> EmptyObject, text |-> t]

\* requests.Response: status_code, headers (the server stamps its k-th response
\* with k) and _content.
Response(sc, h, c) == [status_code |-> sc, headers |-> h, content |-> c]
NoResponse == Response(0, 0, NonJsonBody)

\* ---- what the server may send ----
PageNos == {1, 2, 3}
NextUrls == {Null, "", "/next"}
ItemSeqs == {<<"a">>, <<"b", "a">>}
PageStatuses == {200, 404}
Statuses == {200, 404, 500}

Metas ==
    {Meta(K, p, u) : K \in SUBSET {"page", "next_page_url"}, p \in PageNos, u \in NextUrls}
Envelopes ==
    {Envelope(K, its, m) : K \in SUBSET {"items", "meta"}, its \in ItemSeqs, m \in Metas}
PageBodies == {JsonBody(j) : j \in Envelopes} \cup {NonJsonBody}
VerbBodies == {JsonBody(Envelope(K, <<"a">>, NoMeta)) : K \in SUBSET {"items"}}
                  \cup {NonJsonBody}

\* ---- json ----

\* json.dumps of a list of one-character strings (no character needs an
\* escape): '["b", "a"]', as its characters.
RECURSIVE dumps_items(_)
dumps_items(l) ==
    IF l = <<>> THEN <<>>
    ELSE <<"\"", Head(l), "\"">>
             \o (IF Len(l) > 1 THEN <<",", " ">> ELSE <<>>)
             \o dumps_items(Tail(l))
dumps(l) == <<"[">> \o dumps_items(l) \o <<"]">>

\* json.dumps of the dict {key: val}.
dumps_dict(d) == <<"{", "\"", d.key, "\"", ":", " ", "\"", d.val, "\"", "}">>

\* json.loads of the text of a list of strings: each string is what stands
\* between a pair of quotes; separators are skipped.
RECURSIVE loads_items(_, _)
loads_items(t, i) ==
    IF i > Len(t) \/ t[i] = "]" THEN <<>>
    ELSE IF t[i] = "\"" THEN <<t[i + 1]>> \o loads_items(t, i + 3)
    ELSE loads_items(t, i + 1)
loads(t) == loads_items(t, 2)

\* Response.raise_for_status raises HTTPError for a 4xx or 5xx status.
raise_for_status(r) == 400 <= r.status_code /\ r.status_code < 600

\* ---- the lines printed ----
Line(l, d, sc, c) == [line |-> l, detail |-> d, status_code |-> sc, content |-> c]
\* print(f"HTTP Error: {e}\n{response.text}"): e names the status.
HttpErrorLine(r) == Line("HTTP Error", r.status_code, 0, r.content)
\* print(f"Error: {err}, Status Code: {result.status_code}")
ErrorLine(r) == Line("Error", r.status_code, r.status_code, NonJsonBody)
\* print(json_out)
JsonLine(c) == Line("json", 0, 0, c)

(***************************************************************************)
(* Papi                                                                    *)
(***************************************************************************)

\* The HTTP method of each single-request operation (get, post, put, delete).
Verbs == {"get", "post", "put", "delete"}
Method(v) ==
    CASE v = "get" -> "GET"
      [] v = "post" -> "POST"
      [] v = "put" -> "PUT"
      [] v = "delete" -> "DELETE"
      [] OTHER -> "GET"

\* The body _request sends: a dict is serialized with json.dumps, a str goes
\* as it is.
SentData(d) == IF d.kind = "dict" THEN DataStr(dumps_dict(d)) ELSE d

\* A mutant of Request that lets raise_for_status's HTTPError propagate.
Request_raising(method, p, d, served) ==
    [call |-> [method |-> method, params |-> p, data |-> SentData(d)],
     printed |-> <<>>,
     raised |-> IF raise_for_status(served) THEN "HTTPError" ELSE "none",
     response |-> served]

\* Papi._request: the one network call made, what it prints, what it raises
\* and the response it returns, given the response the server sends.
Request(method, p, d, served) ==
    [call |-> [method |-> method, params |-> p, data |-> SentData(d)],
     printed |-> IF raise_for_status(served) THEN <<HttpErrorLine(served)>> ELSE <<>>,
     raised |-> "none",
     response |-> served]

\* A mutant of check_params with no type check.
check_params_unchecked(p) ==
    IF p.kind = "None" THEN [raised |-> "none", params |-> ParamsDict({}, 0, "")]
    ELSE [raised |-> "none", params |-> p]

\* paginate's entry: None becomes {}, a params that is no dict raises TypeError.
check_params(p) ==
    IF p.kind = "None" THEN [raised |-> "none", params |-> ParamsDict({}, 0, "")]
    ELSE IF p.kind # "dict" THEN [raised |-> "TypeError", params |-> p]
    ELSE [raised |-> "none", params |-> p]

\* response_json.keys() - {'meta'}
top_level_keys(j) == j.keys \ {"meta"}

\* response_json.get(top_level_key, [])
get_items(j, k) == IF k \in j.keys THEN j.items ELSE <<>>

\* A mutant of extend that skips the items the combined result already holds.
extend_dedup(combined, its) ==
    combined \o SelectSeq(its, LAMBDA x : \A i \in 1..Len(combined) : combined[i] # x)

\* combined_results.extend(items)
extend(combined, its) == combined \o its

\* meta = response_json.get('meta', {}); meta.get('next_page_url')
get_meta(j) == IF "meta" \in j.keys THEN j.meta ELSE NoMeta
get_next_page_url(m) == IF "next_page_url" \in m.keys THEN m.next_page_url ELSE Null

\* A mutant of is_last_page that ends the loop on None only.
is_last_page_none_only(u) == u = Null

\* not next_page_url: None and the empty string end the loop.
is_last_page(u) == u = Null \/ u = ""

\* A mutant of next_params that sends the page alone.
next_params_page_only(p, m) == ParamsDict({"page"}, m.page + 1, "")

\* {**params, 'page': meta['page'] + 1}
next_params(p, m) == [p EXCEPT !.keys = @ \cup {"page"}, !.page = m.page + 1]

\* A mutant of synthetic_response that leaves the last page's body in place.
synthetic_response_body_kept(r, combined) == r

\* response._content = bytes(json.dumps(combined_results), 'utf-8')
synthetic_response(r, combined) == [r EXCEPT !.content = Bytes(dumps(combined))]

\* Response.json(): the parsed body (for the client's own bytes, json.loads).
\* Callers test the body's kind first: a body that is not JSON raises.
json_list(r) == loads(r.content.text)

\* json.dumps(result.json()): a list is serialized again from what was parsed;
\* the server's JSON is written back as the same JSON value.
dumps_json(r) ==
    IF r.content.kind = "bytes" THEN Bytes(dumps(json_list(r))) ELSE r.content

(***************************************************************************)
(* The state machines.                                                     *)
(***************************************************************************)
CfgIdle ==
    /\ value = None
    /\ environ = [n \in EnvNames |-> None]
    /\ resolved = None
    /\ cfg_exc = "none"
    /\ cfg_pc = "idle"

PapiIdle ==
    /\ entry = "none"
    /\ verb = "none"
    /\ args_params = ParamsNone
    /\ args_data = DataNone
    /\ params = ParamsNone
    /\ combined_results = <<>>
    /\ requests = <<>>
    /\ fetched = <<>>
    /\ result = NoResponse
    /\ exc = "none"
    /\ stdout = <<>>
    /\ exit_code = -1
    /\ pc = "idle"

\* ---- config.py ----
CfgInit ==
    /\ value \in ConfigValues
    /\ environ \in Environs
    /\ resolved = None
    /\ cfg_exc = "none"
    /\ cfg_pc = "call"
    /\ PapiIdle

\* One call of ConfigReader.load_from_env(value).
LoadFromEnv ==
    /\ cfg_pc = "call"
    /\ LET out == load_from_env(value, environ)
       IN  /\ resolved' = out.ret
           /\ cfg_exc' = out.raised
           /\ cfg_pc' = IF out.raised = "none" THEN "returned" ELSE "raised"
    /\ UNCHANGED <<value, environ, papi_vars>>

CfgNext == LoadFromEnv

CfgSpec == CfgInit /\ [][CfgNext]_vars

\* ---- papi.py ----
Init == CfgIdle /\ PapiIdle

\* What a library caller may pass, and what argparse (type=str) gives main.
LibParams == {ParamsNone, ParamsDict({"status"}, 0, "open"),
              ParamsDict({"page", "status"}, 1, "open"), ParamsStr("not-a-mapping")}
CliParams == {ParamsNone, ParamsStr("status=open")}
LibData == {DataNone, DataStr(<<"{", "}">>), DataDict("k", "a")}
CliData == {DataNone, DataStr(<<"{", "}">>)}

\* A caller selects an operation: a library caller calls a method of Papi;
\* main parses its arguments, builds the client and selects the verb (GET when
\* no flag is given). get and paginate take no data.
Invoke(e, v, p, d) ==
    /\ pc = "idle"
    /\ e \in {"lib", "cli"}
    /\ v \in Verbs \cup {"paginate"}
    /\ p \in (IF e = "cli" THEN CliParams ELSE LibParams)
    /\ d \in (IF v \in {"get", "paginate"} THEN {DataNone}
              ELSE IF e = "cli" THEN CliData ELSE LibData)
    /\ entry' = e
    /\ verb' = v
    /\ args_params' = p
    /\ args_data' = d
    /\ params' = p
    /\ pc' = "call"
    /\ UNCHANGED <<combined_results, requests, fetched, result, exc, stdout,
                   exit_code, cfg_vars>>

\* Papi.get / post / put / delete: one _request, whose response is returned.
VerbRequest(sc, body) ==
    /\ pc = "call"
    /\ verb \in Verbs
    /\ LET served == Response(sc, Len(requests) + 1, body)
           out == Request(Method(verb), args_params, args_data, served)
       IN  /\ requests' = Append(requests, out.call)
           /\ fetched' = Append(fetched, served)
           /\ stdout' = stdout \o out.printed
           /\ IF out.raised # "none"
              THEN /\ exc' = out.raised
                   /\ pc' = "raised"
                   /\ UNCHANGED result
              ELSE /\ result' = out.response
                   /\ pc' = "returned"
                   /\ UNCHANGED exc
    /\ UNCHANGED <<entry, verb, args_params, args_data, params, combined_results,
                   exit_code, cfg_vars>>

\* Papi.paginate, up to the loop: the check of params.
PaginateEnter ==
    /\ pc = "call"
    /\ verb = "paginate"
    /\ LET chk == check_params(args_params)
       IN  IF chk.raised # "none"
           THEN /\ exc' = chk.raised
                /\ pc' = "raised"
                /\ UNCHANGED <<params, combined_results>>
           ELSE /\ params' = chk.params
                /\ combined_results' = <<>>
                /\ pc' = "loop"
                /\ UNCHANGED exc
    /\ UNCHANGED <<entry, verb, args_params, args_data, requests, fetched, result,
                   stdout, exit_code, cfg_vars>>

\* One iteration of paginate's loop: the GET, the merge of the page, and either
\* the break with the synthetic response or the next params. response.json()
\* raises on a body that is not JSON, next(iter(...)) raises StopIteration on
\* an object with no key but meta, meta['page'] raises KeyError.
PaginateFetch(sc, body) ==
    /\ pc = "loop"
    /\ Len(requests) < MaxPages
    /\ LET served == Response(sc, Len(requests) + 1, body)
           out == Request("GET", params, DataNone, served)
           response == out.response
           response_json == response.content.json
           meta == get_meta(response_json)
       IN  /\ requests' = Append(requests, out.call)
           /\ fetched' = Append(fetched, served)
           /\ stdout' = stdout \o out.printed
           /\ IF out.raised # "none"
              THEN /\ exc' = out.raised
                   /\ pc' = "raised"
                   /\ UNCHANGED <<params, combined_results, result>>
              ELSE IF response.content.kind # "json"
              THEN /\ exc' = "JSONDecodeError"
                   /\ pc' = "raised"
                   /\ UNCHANGED <<params, combined_results, result>>
              ELSE IF top_level_keys(response_json) = {}
              THEN /\ exc' = "StopIteration"
                   /\ pc' = "raised"
                   /\ UNCHANGED <<params, combined_results, result>>
              ELSE \E top_level_key \in top_level_keys(response_json) :
                   LET combined == extend(combined_results,
                                          get_items(response_json, top_level_key))
                   IN  /\ combined_results' = combined
                       /\ IF is_last_page(get_next_page_url(meta))
                          THEN /\ result' = synthetic_response(response, combined)
                               /\ pc' = "returned"
                               /\ UNCHANGED <<params, exc>>
                          ELSE IF "page" \notin meta.keys
                          THEN /\ exc' = "KeyError"
                               /\ pc' = "raised"
                               /\ UNCHANGED <<params, result>>
                          ELSE /\ params' = next_params(params, meta)
                               /\ pc' = "loop"
                               /\ UNCHANGED <<result, exc>>
    /\ UNCHANGED <<entry, verb, args_params, args_data, exit_code, cfg_vars>>

\* main, after the operation returned: raise_for_status, then either the
\* JSON of the body or the error line is printed. main returns normally on
\* both paths, so the process exits with status 0; result.json() on a body
\* that is not JSON raises an exception main does not catch.
MainReport ==
    /\ entry = "cli"
    /\ pc = "returned"
    /\ IF raise_for_status(result)
       THEN /\ stdout' = Append(stdout, ErrorLine(result))
            /\ exit_code' = 0
            /\ UNCHANGED exc
       ELSE IF result.content.kind = "nonjson"
       THEN /\ exc' = "JSONDecodeError"
            /\ exit_code' = 1
            /\ UNCHANGED stdout
       ELSE /\ stdout' = Append(stdout, JsonLine(dumps_json(result)))
            /\ exit_code' = 0
            /\ UNCHANGED exc
    /\ pc' = "exit"
    /\ UNCHANGED <<entry, verb, args_params, args_data, params, combined_results,
                   requests, fetched, result, cfg_vars>>

\* main, when the operation raised: nothing catches the exception, and the
\* interpreter ends the process with status 1.
MainCrash ==
    /\ entry = "cli"
    /\ pc = "raised"
    /\ exit_code' = 1
    /\ pc' = "exit"
    /\ UNCHANGED <<entry, verb, args_params, args_data, params, combined_results,
                   requests, fetched, result, exc, stdout, cfg_vars>>

Next ==
    \/ \E e \in {"lib", "cli"}, v \in Verbs \cup {"paginate"},
          p \in LibParams \cup CliParams, d \in LibData : Invoke(e, v, p, d)
    \/ \E sc \in Statuses, body \in VerbBodies : VerbRequest(sc, body)
    \/ PaginateEnter
    \/ \E sc \in PageStatuses, body \in PageBodies : PaginateFetch(sc, body)
    \/ MainReport
    \/ MainCrash

Spec == Init /\ [][Next]_vars

(***************************************************************************)
(* Vocabulary of the properties.                                           *)
(***************************************************************************)
Paginated == verb = "paginate"
Returned == result # NoResponse
IsJson(r) == r.content.kind = "json"
\* The page carries a data key, hence items.
HasItems(r) == IsJson(r) /\ "items" \in r.content.json.keys
ItemsOf(r) == r.content.json.items
MetaOf(r) == r.content.json.meta
\* The page's meta is absent, or its next_page_url is absent, null or empty.
TerminalPage(r) ==
    /\ IsJson(r)
    /\ \/ "meta" \notin r.content.json.keys
       \/ "next_page_url" \notin MetaOf(r).keys
       \/ MetaOf(r).next_page_url = Null
       \/ MetaOf(r).next_page_url = ""
\* The page carries a non-empty next_page_url and its page number.
ContinuingPage(r) ==
    /\ IsJson(r)
    /\ "meta" \in r.content.json.keys
    /\ "next_page_url" \in MetaOf(r).keys
    /\ MetaOf(r).next_page_url \notin {Null, ""}
    /\ "page" \in MetaOf(r).keys
\* I_1 ++ ... ++ I_n of the first n pages received.
RECURSIVE Concat(_, _)
Concat(pages, n) ==
    IF n = 0 THEN <<>> ELSE Concat(pages, n - 1) \o ItemsOf(pages[n])
\* The server served n pages: pages 1..n-1 continue, page n is terminal, and
\* each carries its items.
ServedPages(n) ==
    /\ n >= 1
    /\ Len(fetched) = n
    /\ \A k \in 1..n : HasItems(fetched[k])
    /\ \A k \in 1..(n - 1) : ContinuingPage(fetched[k])
    /\ TerminalPage(fetched[n])
LastFetched == fetched[Len(fetched)]
LastLine == stdout[Len(stdout)]
\* The value starts with '${' and ends with '}'.
IsIndirection(s) == startswith(s, <<"$", "{">>) /\ endswith(s, <<"}">>)
NameOf(s) == SubSeq(s, 3, Len(s) - 1)

(***************************************************************************)
(* C1: over N pages with items, pages 1..N-1 continuing and page N         *)
(* terminal, paginate makes exactly N requests, all GET; request k+1 has   *)
(* page = meta.page of page k, plus 1 (k+1 when page k reports k); and the *)
(* returned body parses to I_1 ++ ... ++ I_N, nothing dropped or moved.    *)
(***************************************************************************)
C1_Concatenation ==
    Paginated =>
        /\ Len(requests) = Len(fetched)
        /\ \A k \in 1..Len(requests) : requests[k].method = "GET"
        /\ \A k \in 1..(Len(requests) - 1) :
               /\ "page" \in requests[k + 1].params.keys
               /\ requests[k + 1].params.page = MetaOf(fetched[k]).page + 1
               /\ MetaOf(fetched[k]).page = k => requests[k + 1].params.page = k + 1
        /\ \A n \in 1..Len(fetched) :
               ServedPages(n) =>
                   /\ pc \in {"returned", "exit"}
                   /\ Returned
                   /\ Len(requests) = n
                   /\ json_list(result) = Concat(fetched, n)

C1_Witness ==
    /\ Paginated
    /\ pc = "returned"
    /\ ServedPages(3)
    /\ \A k \in 1..3 : MetaOf(fetched[k]).page = k
    /\ ItemsOf(fetched[1]) = <<"b", "a">>
    /\ ItemsOf(fetched[2]) = <<"a">>
    /\ ItemsOf(fetched[3]) = <<"b", "a">>
    /\ json_list(result) = <<"b", "a", "a", "b", "a">>

(***************************************************************************)
(* C2: the loop ends at the first page whose meta is absent or whose       *)
(* next_page_url is absent, null or empty, and no GET follows it; a single *)
(* such page with items gives one request and exactly its items; a page    *)
(* with items, a non-empty next_page_url and its page number keeps the     *)
(* loop fetching, and paginate returns only on a terminal page.            *)
(***************************************************************************)
C2_LoopEnds ==
    Paginated =>
        /\ \A k \in 1..Len(fetched) :
               TerminalPage(fetched[k]) =>
                   /\ k = Len(fetched)
                   /\ Len(requests) = k
                   /\ pc # "loop"
        /\ (Len(fetched) = 1 /\ TerminalPage(fetched[1]) /\ HasItems(fetched[1])) =>
               /\ Returned
               /\ Len(requests) = 1
               /\ json_list(result) = ItemsOf(fetched[1])
        /\ (Len(fetched) >= 1 /\ HasItems(LastFetched) /\ ContinuingPage(LastFetched)) =>
               /\ pc = "loop"
               /\ ~Returned
        /\ Returned => TerminalPage(LastFetched)

C2_Witness ==
    /\ Paginated
    /\ Returned
    /\ Len(requests) = 2
    /\ ContinuingPage(fetched[1])
    /\ "next_page_url" \in MetaOf(fetched[2]).keys
    /\ MetaOf(fetched[2]).next_page_url = ""
    /\ "page" \in MetaOf(fetched[2]).keys

(***************************************************************************)
(* C3: the first request carries the caller's params ({} for None); every  *)
(* later request carries the caller's other parameters unchanged and       *)
(* page = the previous page's meta.page + 1, whatever page the caller gave.*)
(***************************************************************************)
C3_ParamsFrame ==
    (Paginated /\ Len(requests) >= 1) =>
        /\ requests[1].params =
               (IF args_params.kind = "None" THEN ParamsDict({}, 0, "") ELSE args_params)
        /\ \A k \in 2..Len(requests) :
               /\ requests[k].params.kind = "dict"
               /\ requests[k].params.keys = args_params.keys \cup {"page"}
               /\ requests[k].params.status = args_params.status
               /\ requests[k].params.page = MetaOf(fetched[k - 1]).page + 1

C3_Witness ==
    /\ Paginated
    /\ Returned
    /\ args_params = ParamsDict({"page", "status"}, 1, "open")
    /\ Len(requests) = 2
    /\ MetaOf(fetched[1]).page = 2
    /\ requests[2].params = ParamsDict({"page", "status"}, 3, "open")

(***************************************************************************)
(* C4: a page whose object has no key but meta does not crash paginate: it *)
(* adds no items, and the loop goes on or ends by that page's              *)
(* next_page_url.                                                          *)
(***************************************************************************)
C4_MissingDataKeyTolerated ==
    (/\ Paginated
     /\ Len(fetched) >= 1
     /\ IsJson(LastFetched)
     /\ LastFetched.content.json.keys \subseteq {"meta"}) =>
        /\ exc = "none"
        /\ pc # "raised"
        /\ TerminalPage(LastFetched) => Returned
        /\ ContinuingPage(LastFetched) => pc = "loop"

(***************************************************************************)
(* C5: the response paginate returns has as body the JSON text of the      *)
(* combined result, a plain array, and the status and headers of the last  *)
(* page fetched.                                                           *)
(***************************************************************************)
C5_SyntheticResponse ==
    (Paginated /\ Returned) =>
        /\ result.content.kind = "bytes"
        /\ Head(result.content.text) = "["
        /\ result.content.text[Len(result.content.text)] = "]"
        /\ json_list(result) = Concat(fetched, Len(fetched))
        /\ result.status_code = LastFetched.status_code
        /\ result.headers = LastFetched.headers
        /\ result.headers = Len(fetched)

C5_Witness ==
    /\ Paginated
    /\ Returned
    /\ Len(fetched) = 2
    /\ fetched[1].status_code = 404
    /\ fetched[2].status_code = 200
    /\ result.status_code = 200
    /\ json_list(result) = ItemsOf(fetched[1]) \o ItemsOf(fetched[2])
    /\ ItemsOf(fetched[1]) = <<"b", "a">>

(***************************************************************************)
(* C6: paginate with a params that is present and not a mapping raises a   *)
(* type error and makes no network call, for a library caller and for the  *)
(* string main passes through.                                             *)
(***************************************************************************)
C6_NonMappingRejected ==
    (Paginated /\ args_params.kind \notin {"None", "dict"} /\ pc # "call") =>
        /\ exc = "TypeError"
        /\ pc \in {"raised", "exit"}
        /\ requests = <<>>
        /\ fetched = <<>>
        /\ ~Returned

C6_Witness ==
    /\ Paginated
    /\ entry = "cli"
    /\ args_params = ParamsStr("status=open")
    /\ exc = "TypeError"
    /\ pc = "exit"
    /\ requests = <<>>

(***************************************************************************)
(* C7: get, post, put and delete make exactly one network call; on a 4xx   *)
(* or 5xx status the helper does not raise and returns the response with   *)
(* that status, and main then prints the error line with the status code   *)
(* and ends without an uncaught exception.                                 *)
(***************************************************************************)
C7_FailureReturned ==
    (verb \in Verbs /\ pc \notin {"idle", "call"}) =>
        /\ Len(requests) = 1
        /\ Len(fetched) = 1
        /\ raise_for_status(fetched[1]) =>
               /\ exc = "none"
               /\ pc \in {"returned", "exit"}
               /\ result = fetched[1]
               /\ result.status_code = fetched[1].status_code
               /\ stdout[1].line = "HTTP Error"
               /\ pc = "exit" =>
                      /\ Len(stdout) = 2
                      /\ LastLine.line = "Error"
                      /\ LastLine.status_code = fetched[1].status_code

C7_Witness ==
    /\ entry = "cli"
    /\ verb = "delete"
    /\ pc = "exit"
    /\ fetched[1].status_code = 404
    /\ result.status_code = 404
    /\ exc = "none"

(***************************************************************************)
(* C8: when the response main obtained has a failure status, main prints   *)
(* the error line with the detail and the status code and the process      *)
(* exits non-zero; on success with a JSON body it prints the JSON and      *)
(* exits zero.                                                             *)
(***************************************************************************)
C8_ExitStatus ==
    (entry = "cli" /\ pc = "exit" /\ Returned) =>
        IF raise_for_status(result)
        THEN /\ LastLine.line = "Error"
             /\ LastLine.detail = result.status_code
             /\ LastLine.status_code = result.status_code
             /\ exit_code # 0
        ELSE result.content.kind # "nonjson" =>
                 /\ LastLine.line = "json"
                 /\ exit_code = 0

(***************************************************************************)
(* C9 as stated: every present value that does not both start with '${'    *)
(* and end with '}' (the empty string included) is returned unchanged.     *)
(***************************************************************************)
C9_LiteralIdentity ==
    (cfg_pc # "call" /\ cfg_pc # "idle" /\ value.some /\ ~IsIndirection(value.str)) =>
        /\ cfg_exc = "none"
        /\ resolved = value

(***************************************************************************)
(* C9 amended: every present, non-empty value that does not both start     *)
(* with '${' and end with '}' is returned unchanged, whatever the          *)
(* environment holds; the empty string resolves to None.                   *)
(***************************************************************************)
C9_NonEmptyLiteralIdentity ==
    (cfg_pc # "call" /\ cfg_pc # "idle" /\ value.some /\ ~IsIndirection(value.str)) =>
        /\ cfg_exc = "none"
        /\ cfg_pc = "returned"
        /\ value.str # <<>> => resolved = value
        /\ value.str = <<>> => resolved = None

C9_Witness ==
    /\ cfg_pc = "returned"
    /\ value = Some(<<"$", "{", "A", "}", "A">>)
    /\ environ[<<"A">>] = Some(<<>>)
    /\ resolved = value

(***************************************************************************)
(* C10: for a value ${NAME}, load_from_env returns the environment's value *)
(* of NAME when it is set (the empty string included) and the value itself *)
(* when it is not, and never raises.                                       *)
(***************************************************************************)
C10_IndirectionResolved ==
    (cfg_pc # "call" /\ cfg_pc # "idle" /\ value.some /\ IsIndirection(value.str)) =>
        /\ cfg_exc = "none"
        /\ cfg_pc = "returned"
        /\ resolved = getenv(environ, NameOf(value.str), value)

====
